---- MODULE Spec2Model ----
(***************************************************************************)
(* The block acceptance pipeline of chain/src/pipe.rs: process_block and   *)
(* its six stages, run by concurrent callers against one shared chain      *)
(* store and one acceptance adapter.                                       *)
(***************************************************************************)
EXTENDS Integers, Sequences, FiniteSets, TLC

(***************************************************************************)
(* Bounds of the model.                                                    *)
(***************************************************************************)
\* runs of add_block, finished or still possible, in one behaviour
MaxAppends == 2
\* largest height, near timestamp, total difficulty and difficulty that a header
\* checked on its own declares
MaxHeight == 3
MaxStamp == 3
MaxTotal == 4
MaxDiff == 2

(***************************************************************************)
(* Program constants.                                                      *)
(***************************************************************************)
\* Options bits
NONE == 1
EASY_POW == 2
\* the size passed to pow::verify_size in the easy mode
EasyPowSize == 16
\* consensus::BLOCK_TIME_SEC and the default cuckoo size of the core crate
BLOCK_TIME_SEC == 15
DefaultCuckooSize == 30

Procs == {1, 2}
OptionsSet == {NONE, EASY_POW}

\* Options::intersects for a one-bit flag
Intersects(o, flag) == (o \div flag) % 2 = 1

(***************************************************************************)
(* Option<T> is a sequence of length at most one.                          *)
(***************************************************************************)
None == <<>>
Some(x) == <<x>>
IsSome(o) == Len(o) = 1
Unwrap(o) == o[1]

(***************************************************************************)
(* Blocks, hashes and tips (the core crate and types.rs).                  *)
(***************************************************************************)
ZeroHash == <<>>

\* Hashed::hash: collision-free, so the hash is the tuple of what is hashed
Hash(b) ==
  <<b.height, b.previous, b.timestamp, b.total_difficulty, b.difficulty,
    b.cuckoo_len, b.proof, b.body>>

\* Difficulty::from_hash: some function of the hash
FromHash(h) == IF h = ZeroHash THEN 1 ELSE 1 + ((h[1] + h[3]) % 2)

Genesis ==
  [height |-> 0, previous |-> ZeroHash, timestamp |-> 0, total_difficulty |-> 1,
   difficulty |-> 1, cuckoo_len |-> DefaultCuckooSize, proof |-> DefaultCuckooSize,
   body |-> TRUE]

\* a block this node never stored
Foreign == [Genesis EXCEPT !.timestamp = 1]

\* Tip::new
NewTip(gbh) ==
  [height |-> 0, last_block_h |-> gbh, prev_block_h |-> gbh, total_difficulty |-> 1]

\* Tip::append
TipAppend(t, bh) ==
  [height |-> t.height + 1, last_block_h |-> bh, prev_block_h |-> t.last_block_h,
   total_difficulty |-> t.total_difficulty + FromHash(t.last_block_h)]

\* time::now(): late enough for every well-formed block of a behaviour
Now == MaxAppends
FutureLimit == Now + 12 * BLOCK_TIME_SEC

\* consensus::next_target: a pure function of its four inputs
NextTarget(ts, prev_ts, prev_diff, prev_cuckoo) ==
  <<IF ts - prev_ts >= BLOCK_TIME_SEC /\ prev_diff > 1 THEN prev_diff - 1 ELSE prev_diff,
    prev_cuckoo>>

\* pow::verify and pow::verify_size: the proof is a cycle of one graph size
PowVerify(b) == b.proof = b.cuckoo_len
PowVerifySize(b, sz) == b.proof = sz

\* Block::verify
BlockVerify(b) == b.body

(***************************************************************************)
(* Result<(), Error> of a stage, and Result<Option<Tip>, Error>.           *)
(***************************************************************************)
OkRes == [kind |-> "Ok", msg |-> "", tip |-> None]
Err(k, m) == [kind |-> k, msg |-> m, tip |-> None]
OkTip(t) == [kind |-> "Ok", msg |-> "", tip |-> t]
NoRes == [kind |-> "None", msg |-> "", tip |-> None]
StoreErr == Err("StoreErr", "")

(***************************************************************************)
(* ChainStore (types.rs): the head, and the blocks saved, by hash.         *)
(***************************************************************************)
\* ChainStore::get_block_header: the stored header with that hash, if any
GetBlockHeader(blocks, h, ok) ==
  IF ok /\ \E s \in blocks : Hash(s) = h
    THEN Some(CHOOSE s \in blocks : Hash(s) = h)
    ELSE None

(***************************************************************************)
(* The stages of pipe.rs as functions of what they read.                   *)
(***************************************************************************)
\* check_known that forgets the block before the last one
CheckKnownLastOnly(bh, head) ==
  IF bh = head.last_block_h THEN Err("Unfit", "already known") ELSE OkRes

\* check_known
CheckKnown(bh, head) ==
  IF bh = head.last_block_h \/ bh = head.prev_block_h
    THEN Err("Unfit", "already known")
    ELSE OkRes

\* the height bound, off by one
IsOrphanLoose(header, head) == header.height > head.height + 2

\* validate_header: the height bound
IsOrphan(header, head) == header.height > head.height + 1

\* the time progression check, not strict
TimeBefore(b, prev) == b.timestamp < prev.timestamp

\* validate_header: header.timestamp <= prev.timestamp
TimeNotAfter(b, prev) == b.timestamp <= prev.timestamp

\* validate_header: header.timestamp > now + 12 block intervals
TimeTooFar(b) == b.timestamp > FutureLimit

\* the total difficulty check with the difficulty of the candidate's own hash
WrongTotalOwnHash(b, prev) ==
  b.total_difficulty # prev.total_difficulty + FromHash(Hash(b))

\* validate_header: the declared total difficulty is not the parent's plus
\* the difficulty of the parent's hash
WrongTotal(b, prev) ==
  b.total_difficulty # prev.total_difficulty + FromHash(Hash(prev))

\* validate_header: consensus::next_target for the candidate on its parent
Target(b, prev) ==
  NextTarget(b.timestamp, prev.timestamp, prev.difficulty, prev.cuckoo_len)

\* validate_header: header.difficulty < difficulty
TooEasy(b, prev) == b.difficulty < Target(b, prev)[1]

\* the proof size check, whatever the mode
WrongSizeAnyMode(b, prev, o) == b.cuckoo_len # Target(b, prev)[2]

\* validate_header: header.cuckoo_len != cuckoo_sz && !ctx.opts.intersects(EASY_POW)
WrongSize(b, prev, o) ==
  b.cuckoo_len # Target(b, prev)[2] /\ ~Intersects(o, EASY_POW)

\* validate_header: the proof of work check of the mode fails
BadPow(b, o) ==
  IF Intersects(o, EASY_POW) THEN ~PowVerifySize(b, EasyPowSize) ELSE ~PowVerify(b)

\* the checks on the header with the total difficulty compared first
CheckAgainstPrevTotalFirst(b, prev, o) ==
  IF WrongTotal(b, prev) THEN Err("WrongTotalDifficulty", "")
  ELSE IF TimeNotAfter(b, prev) THEN Err("InvalidBlockTime", "")
  ELSE IF TimeTooFar(b) THEN Err("InvalidBlockTime", "")
  ELSE IF TooEasy(b, prev) THEN Err("DifficultyTooLow", "")
  ELSE IF WrongSize(b, prev, o) THEN Err("WrongCuckooSize", "")
  ELSE IF BadPow(b, o) THEN Err("InvalidPow", "")
  ELSE OkRes

\* validate_header: the checks on the header once its parent is known
CheckAgainstPrev(b, prev, o) ==
  IF TimeNotAfter(b, prev) THEN Err("InvalidBlockTime", "")
  ELSE IF TimeTooFar(b) THEN Err("InvalidBlockTime", "")
  ELSE IF WrongTotal(b, prev) THEN Err("WrongTotalDifficulty", "")
  ELSE IF TooEasy(b, prev) THEN Err("DifficultyTooLow", "")
  ELSE IF WrongSize(b, prev, o) THEN Err("WrongCuckooSize", "")
  ELSE IF BadPow(b, o) THEN Err("InvalidPow", "")
  ELSE OkRes

\* validate_header; prevRes is what get_block_header answers for header.previous
ValidateHeader(b, head, prevRes, o) ==
  IF IsOrphan(b, head) THEN Err("Unfit", "orphan")
  ELSE IF ~IsSome(prevRes) THEN StoreErr
  ELSE CheckAgainstPrev(b, Unwrap(prevRes), o)

\* validate_header: the calls it makes, in order: the parent lookup unless the
\* height bound rejects, then the proof of work verifier of the mode if every check
\* before it passed
ValidateHeaderCalls(b, head, prevRes, o) ==
  IF IsOrphan(b, head) THEN <<>>
  ELSE IF ~IsSome(prevRes) THEN <<"get_block_header:err">>
  ELSE <<"get_block_header:ok">> \o
       (IF CheckAgainstPrev(b, Unwrap(prevRes), o) \in {OkRes, Err("InvalidPow", "")}
          THEN <<IF Intersects(o, EASY_POW) THEN "pow:verify_size" ELSE "pow:verify">>
          ELSE <<>>)

\* set_tip that also attaches to the block before the last one
FitsHeadOrPrev(h, head) == h.previous \in {head.last_block_h, head.prev_block_h}

\* set_tip: the candidate extends the head read at entry
FitsHead(h, head) == h.previous = head.last_block_h

\* set_tip
SetTip(h, head) ==
  IF ~FitsHead(h, head)
    THEN Err("Unfit", "Just don't know where to put it right now")
    ELSE OkRes

\* validate_block
ValidateBlock(b) ==
  IF BlockVerify(b) THEN OkRes ELSE Err("InvalidBlockProof", "")

\* add_block that leaves the tip as set_tip made it
AddBlockTipKept(tip, bh) == tip

\* add_block: ctx.tip = ctx.tip.as_ref().map(|t| t.append(b.hash()))
AddBlockTip(tip, bh) ==
  IF IsSome(tip) THEN Some(TipAppend(Unwrap(tip), bh)) ELSE None

\* add_block that answers with the Result of save_block
AddBlockPropagates(saved) == IF saved THEN OkRes ELSE StoreErr

\* add_block: the Result of save_block is dropped, the stage answers Ok(())
AddBlock(saved) == OkRes

\* add_block that tells the adapter only of a saved block
AddBlockCallsIfSaved(saved) ==
  IF saved THEN <<"save_block:ok", "block_accepted">> ELSE <<"save_block:err">>

\* add_block: the calls it makes, in order
AddBlockCalls(saved) ==
  <<IF saved THEN "save_block:ok" ELSE "save_block:err", "block_accepted">>

\* update_tips
UpdateTips(saved) == IF saved THEN OkRes ELSE StoreErr

\* try! that drops the error and goes on
TryIgnores(res, next) == next

\* try!: the next position of process_block after a stage answered res
Try(res, next) == IF res.kind = "Ok" THEN next ELSE "Failed"

(***************************************************************************)
(* The blocks the network delivers: a block delivered before, or a child   *)
(* of a block, well formed for the node's mode or wrong in one field.      *)
(***************************************************************************)
OtherSize(sz) == IF sz = EasyPowSize THEN DefaultCuckooSize ELSE EasyPowSize

WellFormedChild(parent, o) ==
  LET ts == parent.timestamp + 1
      target == NextTarget(ts, parent.timestamp, parent.difficulty, parent.cuckoo_len)
  IN  [height |-> parent.height + 1, previous |-> Hash(parent), timestamp |-> ts,
       total_difficulty |-> parent.total_difficulty + FromHash(Hash(parent)),
       difficulty |-> target[1], cuckoo_len |-> target[2],
       proof |-> IF Intersects(o, EASY_POW) THEN EasyPowSize ELSE target[2],
       body |-> TRUE]

Defects(parent, c) ==
  {[c EXCEPT !.height = c.height + 1],
   [c EXCEPT !.height = c.height - 1],
   [c EXCEPT !.timestamp = parent.timestamp],
   [c EXCEPT !.timestamp = FutureLimit + 1],
   [c EXCEPT !.total_difficulty = c.total_difficulty + 1],
   [c EXCEPT !.difficulty = c.difficulty - 1],
   [c EXCEPT !.cuckoo_len = OtherSize(c.cuckoo_len)],
   [c EXCEPT !.proof = 0],
   [c EXCEPT !.proof = OtherSize(c.proof)],
   [c EXCEPT !.body = FALSE]}

Candidates(blocks, o) ==
  blocks \cup {WellFormedChild(Foreign, o)} \cup
  UNION {{WellFormedChild(parent, o)} \cup Defects(parent, WellFormedChild(parent, o)) :
           parent \in blocks}

(***************************************************************************)
(* State.                                                                  *)
(***************************************************************************)
VARIABLES
  store_head,    \* ChainStore: the persisted head
  store_blocks,  \* ChainStore: the blocks saved
  notified,      \* ChainAdapter: the hashes given to block_accepted, in order
  pc,            \* per invocation: the position in process_block
  blk,           \* per invocation: the argument b
  opts,          \* per invocation: ctx.opts
  ctx_head,      \* per invocation: ctx.head
  ctx_tip,       \* per invocation: ctx.tip
  result,        \* per invocation: the value returned
  stage,         \* per invocation: the last stage that ran
  log,           \* per invocation: the store and adapter calls made, in order
  head_arg       \* per invocation: the tip given to save_head

vars ==
  <<store_head, store_blocks, notified, pc, blk, opts, ctx_head, ctx_tip, result,
    stage, log, head_arg>>

Init ==
  /\ store_head = NewTip(Hash(Genesis))
  /\ store_blocks = {Genesis}
  /\ notified = <<>>
  /\ pc = [p \in Procs |-> "Idle"]
  /\ blk = [p \in Procs |-> None]
  /\ opts = [p \in Procs |-> NONE]
  /\ ctx_head = [p \in Procs |-> None]
  /\ ctx_tip = [p \in Procs |-> None]
  /\ result = [p \in Procs |-> NoRes]
  /\ stage = [p \in Procs |-> "none"]
  /\ log = [p \in Procs |-> <<>>]
  /\ head_arg = [p \in Procs |-> None]

\* the invocations whose context exists
InFlight == {p \in Procs : pc[p] # "Idle"}

B(p) == Unwrap(blk[p])
H(p) == Unwrap(ctx_head[p])

\* a stage named s answered res: try! moves on to next or returns the error
Step(p, s, res, next) ==
  /\ pc' = [pc EXCEPT ![p] = Try(res, next)]
  /\ result' = [result EXCEPT ![p] = IF res.kind = "Ok" THEN @ ELSE res]
  /\ stage' = [stage EXCEPT ![p] = s]
  /\ UNCHANGED <<blk, opts, ctx_head>>

\* process_block is called: store.head() and the new BlockContext
Begin(p) ==
  /\ pc[p] = "Idle"
  /\ Len(notified) + Cardinality(InFlight) < MaxAppends
  /\ \E o \in OptionsSet, ok \in BOOLEAN :
       \E b \in Candidates(store_blocks, o) :
         /\ blk' = [blk EXCEPT ![p] = Some(b)]
         /\ opts' = [opts EXCEPT ![p] = o]
         /\ ctx_head' = [ctx_head EXCEPT ![p] = IF ok THEN Some(store_head) ELSE None]
         /\ ctx_tip' = [ctx_tip EXCEPT ![p] = None]
         /\ log' = [log EXCEPT ![p] = <<IF ok THEN "head:ok" ELSE "head:err">>]
         /\ stage' = [stage EXCEPT ![p] = "head"]
         /\ pc' = [pc EXCEPT ![p] = IF ok THEN "Start" ELSE "Failed"]
         /\ result' = [result EXCEPT ![p] = IF ok THEN NoRes ELSE StoreErr]
  /\ UNCHANGED <<store_head, store_blocks, notified, head_arg>>

DoCheckKnown(p) ==
  /\ pc[p] = "Start"
  /\ Step(p, "check_known", CheckKnown(Hash(B(p)), H(p)), "DuplicateChecked")
  /\ UNCHANGED <<store_head, store_blocks, notified, ctx_tip, log, head_arg>>

DoValidateHeader(p) ==
  /\ pc[p] = "DuplicateChecked"
  /\ \E ok \in BOOLEAN :
       LET prevRes == GetBlockHeader(store_blocks, B(p).previous, ok)
       IN  /\ Step(p, "validate_header",
                   ValidateHeader(B(p), H(p), prevRes, opts[p]), "HeaderValid")
           /\ log' = [log EXCEPT ![p] =
                        @ \o ValidateHeaderCalls(B(p), H(p), prevRes, opts[p])]
  /\ UNCHANGED <<store_head, store_blocks, notified, ctx_tip, head_arg>>

\* set_tip that takes the tip from the store as it is now
SetTipTipReread(head) == Some(store_head)

\* set_tip: ctx.tip = Some(ctx.head.clone())
SetTipTip(head) == Some(head)

DoSetTip(p) ==
  /\ pc[p] = "HeaderValid"
  /\ Step(p, "set_tip", SetTip(B(p), H(p)), "TipSelected")
  /\ ctx_tip' = [ctx_tip EXCEPT ![p] =
                   IF SetTip(B(p), H(p)).kind = "Ok" THEN SetTipTip(H(p)) ELSE @]
  /\ UNCHANGED <<store_head, store_blocks, notified, log, head_arg>>

DoValidateBlock(p) ==
  /\ pc[p] = "TipSelected"
  /\ Step(p, "validate_block", ValidateBlock(B(p)), "BodyValid")
  /\ UNCHANGED <<store_head, store_blocks, notified, ctx_tip, log, head_arg>>

\* add_block, up to store.save_block: the tip gets the block's hash, the block is
\* saved or not, and the Result of save_block is dropped
DoSaveBlock(p) ==
  /\ pc[p] = "BodyValid"
  /\ \E saved \in BOOLEAN :
       LET made == AddBlockCalls(saved)
       IN  /\ ctx_tip' = [ctx_tip EXCEPT ![p] = AddBlockTip(@, Hash(B(p)))]
           /\ store_blocks' =
                IF Head(made) = "save_block:ok"
                  THEN store_blocks \cup {B(p)} ELSE store_blocks
           /\ log' = [log EXCEPT ![p] = Append(@, Head(made))]
  /\ pc' = [pc EXCEPT ![p] = "Saved"]
  /\ stage' = [stage EXCEPT ![p] = "add_block"]
  /\ UNCHANGED <<store_head, notified, head_arg, blk, opts, ctx_head, result>>

\* add_block, after store.save_block: adapter.block_accepted, then Ok(()); no lock
\* is held since save_block, so other invocations run in between
DoBlockAccepted(p) ==
  /\ pc[p] = "Saved"
  /\ LET saved == log[p][Len(log[p])] = "save_block:ok"
         rest == Tail(AddBlockCalls(saved))
     IN  /\ notified' =
              IF \E i \in 1 .. Len(rest) : rest[i] = "block_accepted"
                THEN Append(notified, Hash(B(p))) ELSE notified
         /\ log' = [log EXCEPT ![p] = @ \o rest]
         /\ Step(p, "add_block", AddBlock(saved), "Appended")
  /\ UNCHANGED <<store_head, store_blocks, ctx_tip, head_arg>>

\* update_tips, then Ok(ctx.tip)
DoUpdateTips(p) ==
  /\ pc[p] = "Appended"
  /\ IsSome(ctx_tip[p])
  /\ \E saved \in BOOLEAN :
       /\ store_head' = IF saved THEN Unwrap(ctx_tip[p]) ELSE store_head
       /\ head_arg' = [head_arg EXCEPT ![p] = ctx_tip[p]]
       /\ log' = [log EXCEPT ![p] =
                    Append(@, IF saved THEN "save_head:ok" ELSE "save_head:err")]
       /\ pc' = [pc EXCEPT ![p] = Try(UpdateTips(saved), "HeadUpdated")]
       /\ result' = [result EXCEPT ![p] =
                       IF UpdateTips(saved).kind = "Ok" THEN OkTip(ctx_tip[p])
                       ELSE UpdateTips(saved)]
       /\ stage' = [stage EXCEPT ![p] = "update_tips"]
  /\ UNCHANGED <<store_blocks, notified, blk, opts, ctx_head, ctx_tip>>

\* the caller has the answer; the context is dropped
Return(p) ==
  /\ pc[p] \in {"HeadUpdated", "Failed"}
  /\ pc' = [pc EXCEPT ![p] = "Idle"]
  /\ blk' = [blk EXCEPT ![p] = None]
  /\ opts' = [opts EXCEPT ![p] = NONE]
  /\ ctx_head' = [ctx_head EXCEPT ![p] = None]
  /\ ctx_tip' = [ctx_tip EXCEPT ![p] = None]
  /\ result' = [result EXCEPT ![p] = NoRes]
  /\ stage' = [stage EXCEPT ![p] = "none"]
  /\ log' = [log EXCEPT ![p] = <<>>]
  /\ head_arg' = [head_arg EXCEPT ![p] = None]
  /\ UNCHANGED <<store_head, store_blocks, notified>>

Next ==
  \E p \in Procs :
    \/ Begin(p)
    \/ DoCheckKnown(p)
    \/ DoValidateHeader(p)
    \/ DoSetTip(p)
    \/ DoValidateBlock(p)
    \/ DoSaveBlock(p)
    \/ DoBlockAccepted(p)
    \/ DoUpdateTips(p)
    \/ Return(p)

Spec == Init /\ [][Next]_vars

(***************************************************************************)
(* One invocation on any header: the store holds the genesis block and a   *)
(* child of it, the head is either of them, the head read is done, and     *)
(* the candidate is any block over the field values below.                 *)
(***************************************************************************)
FirstChild == WellFormedChild(Genesis, NONE)

AnyBlock ==
  [height : 0 .. MaxHeight,
   previous : {Hash(Genesis), Hash(FirstChild), Hash(Foreign)},
   timestamp : (0 .. MaxStamp) \cup {FutureLimit, FutureLimit + 1},
   total_difficulty : 1 .. MaxTotal,
   difficulty : 0 .. MaxDiff,
   cuckoo_len : {EasyPowSize, DefaultCuckooSize},
   proof : {0, EasyPowSize, DefaultCuckooSize},
   body : BOOLEAN]

InitHeader ==
  /\ store_blocks = {Genesis, FirstChild}
  /\ store_head \in {NewTip(Hash(Genesis)),
                     TipAppend(NewTip(Hash(Genesis)), Hash(FirstChild))}
  /\ notified = <<Hash(FirstChild)>>
  /\ \E b \in AnyBlock, o \in OptionsSet :
       /\ blk = [p \in Procs |-> IF p = 1 THEN Some(b) ELSE None]
       /\ opts = [p \in Procs |-> IF p = 1 THEN o ELSE NONE]
  /\ pc = [p \in Procs |-> IF p = 1 THEN "Start" ELSE "Idle"]
  /\ ctx_head = [p \in Procs |-> IF p = 1 THEN Some(store_head) ELSE None]
  /\ ctx_tip = [p \in Procs |-> None]
  /\ result = [p \in Procs |-> NoRes]
  /\ stage = [p \in Procs |-> IF p = 1 THEN "head" ELSE "none"]
  /\ log = [p \in Procs |-> IF p = 1 THEN <<"head:ok">> ELSE <<>>]
  /\ head_arg = [p \in Procs |-> None]

NextHeader ==
  \/ DoCheckKnown(1)
  \/ DoValidateHeader(1)
  \/ DoSetTip(1)
  \/ DoValidateBlock(1)
  \/ DoSaveBlock(1)
  \/ DoBlockAccepted(1)
  \/ DoUpdateTips(1)

SpecHeader == InitHeader /\ [][NextHeader]_vars

(***************************************************************************)
(* What the claims speak of.                                               *)
(***************************************************************************)
Failed(p) == pc[p] = "Failed"
Succeeded(p) == pc[p] = "HeadUpdated"
Called(p, c) == \E i \in 1 .. Len(log[p]) : log[p][i] = c
Count(p, cs) == Cardinality({i \in 1 .. Len(log[p]) : log[p][i] \in cs})
SaveBlock == {"save_block:ok", "save_block:err"}
SaveHead == {"save_head:ok", "save_head:err"}
Notify == {"block_accepted"}
HeadRead(p) == IsSome(ctx_head[p])
EarlyStages == {"head", "check_known", "validate_header", "set_tip", "validate_block"}

\* C1, as claimed: an invocation that returns an error, from whatever stage,
\* has called neither save_head nor block_accepted.
C1_AnyErrorNoHeadNoNotify ==
  \A p \in Procs :
    Failed(p) => Count(p, SaveHead) = 0 /\ Count(p, Notify) = 0

\* C1, amended: an error comes from the head read, check_known, validate_header,
\* set_tip or validate_block, and then neither save_head nor block_accepted was
\* called, or it comes from update_tips, and then save_head was called once, last,
\* and failed, after block_accepted was called once.
C1_ErrorCalls ==
  \A p \in Procs :
    Failed(p) =>
      IF stage[p] = "update_tips"
        THEN /\ Count(p, SaveHead) = 1
             /\ log[p][Len(log[p])] = "save_head:err"
             /\ Count(p, Notify) = 1
        ELSE /\ stage[p] \in EarlyStages
             /\ Count(p, SaveHead) = 0
             /\ Count(p, Notify) = 0
             /\ Count(p, SaveBlock) = 0

C1_Witness ==
  \E p \in Procs :
    Failed(p) /\ stage[p] = "validate_block" /\ result[p].kind = "InvalidBlockProof"

\* C2, as claimed: when save_block fails in add_block, the invocation returns a
\* StoreErr and calls neither block_accepted nor save_head.
C2_SaveBlockFailureAborts ==
  \A p \in Procs :
    Called(p, "save_block:err") =>
      /\ Failed(p)
      /\ result[p].kind = "StoreErr"
      /\ Count(p, Notify) = 0
      /\ Count(p, SaveHead) = 0

\* C3, as claimed: an invocation that returns an error has written neither the
\* head nor the candidate block.
C3_ErrorWritesNothing ==
  \A p \in Procs :
    Failed(p) => ~Called(p, "save_block:ok") /\ ~Called(p, "save_head:ok")

\* C4: a successful invocation returns Some(tip), tip being the head read at entry
\* with the candidate's hash appended: its last block is the candidate, its height
\* is the entry head's plus one; the same tip was given to save_head.
C4_ReturnedTip ==
  \A p \in Procs :
    Succeeded(p) =>
      /\ result[p].kind = "Ok"
      /\ IsSome(result[p].tip)
      /\ Unwrap(result[p].tip).last_block_h = Hash(B(p))
      /\ Unwrap(result[p].tip).height = H(p).height + 1
      /\ Unwrap(result[p].tip) = TipAppend(H(p), Hash(B(p)))
      /\ head_arg[p] = result[p].tip

C4_Witness ==
  \E p \in Procs : Succeeded(p) /\ H(p).height = 1 /\ IsSome(result[p].tip)

\* C5: a successful invocation has called save_block, block_accepted and save_head
\* once each, in that order, and nothing after.
C5_EachCalledOnce ==
  \A p \in Procs :
    Succeeded(p) =>
      /\ Count(p, SaveBlock) = 1
      /\ Count(p, Notify) = 1
      /\ Count(p, SaveHead) = 1
      /\ \E s \in SaveBlock :
           SubSeq(log[p], Len(log[p]) - 2, Len(log[p]))
             = <<s, "block_accepted", "save_head:ok">>

C5_Witness ==
  \E p \in Procs : Succeeded(p) /\ Called(p, "save_block:err")

\* C6, as claimed: block_accepted is called only after save_block and save_head
\* both succeeded in the same invocation.
C6_NotifyAfterBothSaved ==
  \A p \in Procs :
    \A i \in 1 .. Len(log[p]) :
      log[p][i] = "block_accepted" =>
        /\ \E j \in 1 .. i - 1 : log[p][j] = "save_block:ok"
        /\ \E j \in 1 .. i - 1 : log[p][j] = "save_head:ok"

\* C7: once check_known has run on a candidate whose hash is the entry head's last
\* or previous block, the invocation has failed with Unfit("already known"), has
\* made no call after the head read, and its provisional tip is unset.
C7_KnownRejectedFirst ==
  \A p \in Procs :
    (/\ HeadRead(p)
     /\ pc[p] # "Start"
     /\ Hash(B(p)) \in {H(p).last_block_h, H(p).prev_block_h}) =>
      /\ Failed(p)
      /\ stage[p] = "check_known"
      /\ result[p] = Err("Unfit", "already known")
      /\ log[p] = <<"head:ok">>
      /\ ctx_tip[p] = None

C7_Witness ==
  \E p \in Procs :
    /\ Failed(p)
    /\ HeadRead(p)
    /\ H(p).prev_block_h # H(p).last_block_h
    /\ Hash(B(p)) = H(p).prev_block_h
    /\ result[p].msg = "already known"

\* C8: once validate_header has run on a candidate higher than the entry head's
\* height plus one, the invocation has failed with Unfit("orphan") and has made no
\* call to the store but the head read.
C8_OrphanRejected ==
  \A p \in Procs :
    (/\ HeadRead(p)
     /\ pc[p] \notin {"Start", "DuplicateChecked"}
     /\ B(p).height > H(p).height + 1) =>
      /\ Failed(p)
      /\ stage[p] = "validate_header"
      /\ result[p] = Err("Unfit", "orphan")
      /\ log[p] = <<"head:ok">>

C8_Witness ==
  \E p \in Procs :
    /\ Failed(p)
    /\ HeadRead(p)
    /\ H(p).height = 1
    /\ B(p).height = 3
    /\ result[p].msg = "orphan"

\* C9, as claimed: a candidate whose previous hash is not the entry head's last
\* block is answered with an Unfit error, and nothing is written.
C9_NotExtendingIsUnfit ==
  \A p \in Procs :
    (/\ HeadRead(p)
     /\ pc[p] \in {"Failed", "HeadUpdated"}
     /\ B(p).previous # H(p).last_block_h) =>
      /\ Failed(p)
      /\ result[p].kind = "Unfit"
      /\ Count(p, SaveBlock) = 0
      /\ Count(p, SaveHead) = 0

\* C9, amended: a candidate whose previous hash is not the entry head's last block
\* is answered with an error by check_known, validate_header or set_tip, and nothing
\* is written; the error is Unfit unless validate_header answers with another one
\* first; so a successful invocation's candidate extends the entry head.
C9_NotExtendingRejected ==
  \A p \in Procs :
    /\ (/\ HeadRead(p)
        /\ pc[p] \notin {"Start", "DuplicateChecked", "HeaderValid"}
        /\ B(p).previous # H(p).last_block_h) =>
         /\ Failed(p)
         /\ stage[p] \in {"check_known", "validate_header", "set_tip"}
         /\ result[p].kind = "Unfit" \/ stage[p] = "validate_header"
         /\ Count(p, SaveBlock) = 0
         /\ Count(p, SaveHead) = 0
         /\ ctx_tip[p] = None
    /\ Succeeded(p) => B(p).previous = H(p).last_block_h

C9_Witness ==
  \E p \in Procs :
    /\ Failed(p)
    /\ stage[p] = "set_tip"
    /\ B(p).previous # H(p).last_block_h
    /\ result[p].kind = "Unfit"

\* between the head read and the answer of update_tips
InCritical(p) ==
  pc[p] \in {"Start", "DuplicateChecked", "HeaderValid", "TipSelected", "BodyValid",
             "Saved", "Appended"}

\* C10, as claimed: no two invocations are at once between their head read and
\* their head write.
C10_HeadCriticalSection ==
  \A p, q \in Procs : p # q => ~(InCritical(p) /\ InCritical(q))

\* the step is a successful save_head of invocation p
SavesHead(p) ==
  /\ Len(log'[p]) = Len(log[p]) + 1
  /\ log'[p][Len(log'[p])] = "save_head:ok"

\* C11, as claimed: every successful save_head replaces the persisted head by a tip
\* that extends it: the new tip's previous block is the old head's last block and
\* its height is the old head's plus one.
C11_SaveHeadExtendsHead ==
  [][\A p \in Procs :
       SavesHead(p) =>
         /\ store_head'.prev_block_h = store_head.last_block_h
         /\ store_head'.height = store_head.height + 1]_vars

\* C12: the provisional tip of an invocation is unset, or the head it read at
\* entry, or that head with the candidate's hash appended, whatever the persisted
\* head has become.
C12_TipFromEntryHead ==
  \A p \in Procs :
    /\ ~HeadRead(p) => ctx_tip[p] = None
    /\ HeadRead(p) =>
         ctx_tip[p] \in {None, Some(H(p)), Some(TipAppend(H(p), Hash(B(p))))}

C12_Witness ==
  \E p \in Procs :
    /\ HeadRead(p)
    /\ store_head # H(p)
    /\ pc[p] = "TipSelected"
    /\ ctx_tip[p] = Some(H(p))

\* the stage run from each position, and the position after it when it answers Ok;
\* Saved is inside add_block, between save_block and block_accepted
StageAt(at) ==
  CASE at = "Start" -> <<"check_known", "DuplicateChecked">>
    [] at = "DuplicateChecked" -> <<"validate_header", "HeaderValid">>
    [] at = "HeaderValid" -> <<"set_tip", "TipSelected">>
    [] at = "TipSelected" -> <<"validate_block", "BodyValid">>
    [] at = "BodyValid" -> <<"add_block", "Saved">>
    [] at = "Saved" -> <<"add_block", "Appended">>
    [] at = "Appended" -> <<"update_tips", "HeadUpdated">>

\* the errors the stage run from position at can answer for invocation p
StageErrors(p, at) ==
  CASE at = "Start" -> {CheckKnown(Hash(B(p)), H(p))}
    [] at = "DuplicateChecked" ->
         {ValidateHeader(B(p), H(p), GetBlockHeader(store_blocks, B(p).previous, ok),
                         opts[p]) : ok \in BOOLEAN}
    [] at = "HeaderValid" -> {SetTip(B(p), H(p))}
    [] at = "TipSelected" -> {ValidateBlock(B(p))}
    [] at = "BodyValid" -> {}
    [] at = "Saved" -> {}
    [] at = "Appended" -> {StoreErr}

\* C13: an invocation goes through Start, DuplicateChecked, HeaderValid,
\* TipSelected, BodyValid, Saved, Appended, HeadUpdated in this order, each step
\* running the stage of its position (check_known, validate_header, set_tip,
\* validate_block, add_block in two steps, update_tips), none repeated, none
\* skipped; the first stage to answer an error moves it to Failed with that error
\* as the value returned, and from Failed no stage runs.
C13_StagesInOrder ==
  [][\A p \in Procs :
       /\ pc'[p] = pc[p] =>
            /\ result'[p] = result[p]
            /\ stage'[p] = stage[p]
            /\ log'[p] = log[p]
            /\ ctx_tip'[p] = ctx_tip[p]
       /\ pc'[p] # pc[p] =>
            IF pc[p] = "Idle"
              THEN /\ stage'[p] = "head"
                   /\ \/ pc'[p] = "Start" /\ result'[p] = NoRes
                      \/ pc'[p] = "Failed" /\ result'[p] = StoreErr
            ELSE IF pc[p] \in {"Failed", "HeadUpdated"}
              THEN pc'[p] = "Idle"
            ELSE /\ stage'[p] = StageAt(pc[p])[1]
                 /\ \/ /\ pc'[p] = StageAt(pc[p])[2]
                       /\ result'[p].kind = IF pc'[p] = "HeadUpdated" THEN "Ok" ELSE "None"
                    \/ /\ pc'[p] = "Failed"
                       /\ result'[p].kind \notin {"Ok", "None"}
                       /\ result'[p] \in StageErrors(p, pc[p])]_vars

C13_Witness ==
  \E p, q \in Procs :
    /\ Succeeded(p)
    /\ stage[p] = "update_tips"
    /\ Failed(q)
    /\ stage[q] = "validate_header"
    /\ result[q].kind = "WrongTotalDifficulty"

(***************************************************************************)
(* The header checks, stated on the candidate and its stored parent.       *)
(***************************************************************************)
ParentStored(p) == \E s \in store_blocks : Hash(s) = B(p).previous
Parent(p) == CHOOSE s \in store_blocks : Hash(s) = B(p).previous
Easy(p) == opts[p] = EASY_POW
Finished(p) == pc[p] \in {"Failed", "HeadUpdated"}
HeaderPassed(p) ==
  pc[p] \in {"HeaderValid", "TipSelected", "BodyValid", "Saved", "Appended",
            "HeadUpdated"}
  \/ (Failed(p) /\ stage[p] \in {"set_tip", "validate_block", "update_tips"})
PowCalls == {"pow:verify", "pow:verify_size"}

BadTime(p) ==
  B(p).timestamp <= Parent(p).timestamp
  \/ B(p).timestamp > Now + 12 * BLOCK_TIME_SEC
BadTotal(p) ==
  B(p).total_difficulty
    # Parent(p).total_difficulty + FromHash(Hash(Parent(p)))
Expected(p) ==
  NextTarget(B(p).timestamp, Parent(p).timestamp, Parent(p).difficulty,
             Parent(p).cuckoo_len)
LowDifficulty(p) == B(p).difficulty < Expected(p)[1]
OddSize(p) == B(p).cuckoo_len # Expected(p)[2]
ProofFails(p) ==
  IF Easy(p) THEN ~PowVerifySize(B(p), EasyPowSize) ELSE ~PowVerify(B(p))

\* C14, as claimed: a candidate whose timestamp is not after its parent's, or is
\* more than twelve block intervals past now, is rejected with InvalidBlockTime.
C14_BadTimeIsInvalidBlockTime ==
  \A p \in Procs :
    (HeadRead(p) /\ Finished(p) /\ ParentStored(p) /\ BadTime(p)) =>
      Failed(p) /\ result[p] = Err("InvalidBlockTime", "")

\* C14, amended: a candidate that passes check_known and the height bound and
\* whose parent the store returns is rejected with InvalidBlockTime when its
\* timestamp is not after its parent's or is more than twelve block intervals past
\* now, before any later check; so a header that passes validate_header has
\* parent.timestamp < timestamp <= now + 12 block intervals.
C14_TimeChecked ==
  \A p \in Procs :
    /\ (Called(p, "get_block_header:ok") /\ BadTime(p)) =>
         /\ Failed(p)
         /\ stage[p] = "validate_header"
         /\ result[p] = Err("InvalidBlockTime", "")
         /\ Count(p, PowCalls) = 0
    /\ HeaderPassed(p) =>
         /\ ParentStored(p)
         /\ Parent(p).timestamp < B(p).timestamp
         /\ B(p).timestamp <= Now + 12 * BLOCK_TIME_SEC

C14_Witness ==
  \E p \in Procs :
    /\ Failed(p)
    /\ Called(p, "get_block_header:ok")
    /\ B(p).timestamp = Parent(p).timestamp
    /\ B(p).timestamp > 0
    /\ result[p].kind = "InvalidBlockTime"

\* C15, as claimed: a candidate whose declared total difficulty is not its stored
\* parent's plus the difficulty of the parent's hash is rejected with
\* WrongTotalDifficulty.
C15_BadTotalIsWrongTotalDifficulty ==
  \A p \in Procs :
    (HeadRead(p) /\ Finished(p) /\ ParentStored(p) /\ BadTotal(p)) =>
      Failed(p) /\ result[p] = Err("WrongTotalDifficulty", "")

\* C15, amended: a candidate that passes check_known, the height bound and the two
\* timestamp checks and whose parent the store returns is rejected with
\* WrongTotalDifficulty when its declared total difficulty is not the parent's plus
\* the difficulty of the parent's hash; so a header that passes validate_header
\* declares exactly that total difficulty.
C15_TotalChecked ==
  \A p \in Procs :
    /\ (Called(p, "get_block_header:ok") /\ ~BadTime(p) /\ BadTotal(p)) =>
         /\ Failed(p)
         /\ stage[p] = "validate_header"
         /\ result[p] = Err("WrongTotalDifficulty", "")
    /\ HeaderPassed(p) => ParentStored(p) /\ ~BadTotal(p)

C15_Witness ==
  \E p \in Procs :
    /\ Failed(p)
    /\ Called(p, "get_block_header:ok")
    /\ B(p).previous = Hash(FirstChild)
    /\ B(p).total_difficulty = Parent(p).total_difficulty + FromHash(Hash(B(p)))
    /\ result[p].kind = "WrongTotalDifficulty"

\* C16, as claimed: without EASY_POW a candidate whose cuckoo_len is not the one
\* of next_target is rejected with WrongCuckooSize; in both modes a candidate whose
\* proof fails the mode's check is rejected with InvalidPow.
C16_SizeAndPowRejected ==
  \A p \in Procs :
    (HeadRead(p) /\ Finished(p) /\ ParentStored(p)) =>
      /\ (~Easy(p) /\ OddSize(p)) =>
           Failed(p) /\ result[p] = Err("WrongCuckooSize", "")
      /\ (ProofFails(p) /\ (Easy(p) \/ ~OddSize(p))) =>
           Failed(p) /\ result[p] = Err("InvalidPow", "")

\* C16, amended: for a candidate that passes every check before the proof size
\* check (check_known, height bound, parent lookup, timestamps, total difficulty,
\* difficulty floor): without EASY_POW it is rejected with WrongCuckooSize when its
\* cuckoo_len is not the one of next_target, and else its proof is checked with
\* pow::verify; with EASY_POW the sizes are not compared and its proof is checked
\* with pow::verify_size against 16; a failing proof check gives InvalidPow, a
\* passing one passes the header; the errors of the earlier checks are the same in
\* both modes.
C16_ModeChecks ==
  \A p \in Procs :
    /\ (/\ Called(p, "get_block_header:ok")
        /\ ~BadTime(p) /\ ~BadTotal(p) /\ ~LowDifficulty(p)) =>
         IF ~Easy(p) /\ OddSize(p)
           THEN /\ Failed(p)
                /\ result[p] = Err("WrongCuckooSize", "")
                /\ Count(p, PowCalls) = 0
           ELSE /\ Count(p, PowCalls) = 1
                /\ Called(p, IF Easy(p) THEN "pow:verify_size" ELSE "pow:verify")
                /\ IF ProofFails(p)
                     THEN Failed(p) /\ result[p] = Err("InvalidPow", "")
                     ELSE HeaderPassed(p)
    /\ (/\ Called(p, "get_block_header:ok")
        /\ BadTime(p) \/ BadTotal(p) \/ LowDifficulty(p)) =>
         /\ Failed(p)
         /\ result[p].kind
              \in {"InvalidBlockTime", "WrongTotalDifficulty", "DifficultyTooLow"}
         /\ \A o \in OptionsSet : CheckAgainstPrev(B(p), Parent(p), o) = result[p]

C16_Witness ==
  \E p \in Procs :
    /\ Easy(p)
    /\ HeaderPassed(p)
    /\ OddSize(p)
    /\ Called(p, "pow:verify_size")

\* the sub-checks of validate_header that the candidate of p violates, in the
\* order of the code: height bound, parent lookup, time progression, future
\* bound, total difficulty, difficulty floor, proof size, proof of work
Violates(p) ==
  LET known == Called(p, "get_block_header:ok")
  IN  <<B(p).height > H(p).height + 1,
        ~known,
        known /\ B(p).timestamp <= Parent(p).timestamp,
        known /\ B(p).timestamp > Now + 12 * BLOCK_TIME_SEC,
        known /\ BadTotal(p),
        known /\ LowDifficulty(p),
        known /\ ~Easy(p) /\ OddSize(p),
        known /\ ProofFails(p)>>

SubCheckErrors ==
  <<Err("Unfit", "orphan"), StoreErr, Err("InvalidBlockTime", ""),
    Err("InvalidBlockTime", ""), Err("WrongTotalDifficulty", ""),
    Err("DifficultyTooLow", ""), Err("WrongCuckooSize", ""), Err("InvalidPow", "")>>

\* C17: after validate_header has run, its answer is the error of the first
\* sub-check the candidate violates, in the order height bound, parent lookup,
\* time progression, future bound, total difficulty, difficulty floor, proof size,
\* proof of work, or Ok when it violates none; the proof of work verifier was
\* called only if the seven sub-checks before it passed.
C17_EarliestSubCheck ==
  \A p \in Procs :
    (HeadRead(p) /\ (stage[p] = "validate_header" \/ HeaderPassed(p))) =>
      LET v == Violates(p)
          bad == {i \in 1 .. 8 : v[i]}
      IN  /\ IF bad = {}
               THEN HeaderPassed(p)
               ELSE /\ Failed(p)
                    /\ stage[p] = "validate_header"
                    /\ result[p] = SubCheckErrors[CHOOSE i \in bad : \A j \in bad : i <= j]
          /\ Count(p, PowCalls) = IF \E i \in 1 .. 7 : v[i] THEN 0 ELSE 1

C17_Witness ==
  \E p \in Procs :
    /\ Failed(p)
    /\ stage[p] = "validate_header"
    /\ Called(p, "get_block_header:ok")
    /\ B(p).timestamp > Now + 12 * BLOCK_TIME_SEC
    /\ BadTotal(p)
    /\ LowDifficulty(p)
    /\ ProofFails(p)
    /\ result[p].kind = "InvalidBlockTime"

\* C18, as claimed: every block accepted by process_block declares the height of
\* the new tip, the height of the head at entry plus one.
C18_AcceptedAtNextHeight ==
  \A p \in Procs :
    Succeeded(p) =>
      /\ B(p).height = H(p).height + 1
      /\ B(p).height = result[p].tip.height

\* C19, as claimed: a block, by hash, is accepted at most once over all
\* invocations: the adapter is told of it at most once and at most one invocation
\* saves a head for it.
C19_AcceptedOnce ==
  /\ \A i, j \in DOMAIN notified : notified[i] = notified[j] => i = j
  /\ \A p, q \in Procs :
       (/\ p # q
        /\ Called(p, "save_head:ok")
        /\ Called(q, "save_head:ok")) => Hash(B(p)) # Hash(B(q))

====
